---------------------------- MODULE Spec2Model ----------------------------
(***************************************************************************)
(* The attempt loop of code-and-test-crew, as it is written five times in  *)
(* the repository:                                                         *)
(*   "gui"   CodeGenerationApp._run_workflow       (src/gui/app.py)        *)
(*   "web"   run_workflow and its socket handlers  (src/webapp/app.py)     *)
(*   "graph" the LangGraph workflow                (src/workflow.py)       *)
(*   "three" ThreeAgentOrchestrator.run            (src/orchestrator_3agents.py) *)
(*   "bench" BenchmarkGUI._run_benchmark           (src/BENCHMARK.py)      *)
(* impl is fixed by Init and selects which program is running.  The        *)
(* AgentState dictionary (src/utils/state.py) is the shared part of the    *)
(* state; the Generator, the reviewer and the tester are collaborators     *)
(* whose outcome (value or exception) is chosen nondeterministically.      *)
(***************************************************************************)
EXTENDS Integers, Sequences, FiniteSets, TLC

\* ------------------------------------------------------------------ bounds
\* largest attempt ceiling explored (the product ships 10, 3 and caller-given)
MaxCeiling == 2
\* worker threads the web handlers may have alive at once
MaxWorkers == 2
\* prompts loaded into the benchmark
NumPrompts == 1
\* messages the GUI's queue holds before check_queue has to run
MaxQueue == 2
\* AgentState objects one GUI behaviour creates (Start clicks)
MaxSessions == 2

Impls == {"gui", "web", "graph", "three", "bench"}
Workers == 1..MaxWorkers

\* an entry appended without an "attempt" key
NoAttempt == -1
\* generated_code is None
NoCode == 0

GenOutcomes == {"ok", "raise"}
ReviewOutcomes == {"approved", "rejected", "raise"}
TestOutcomes == {"pass", "fail", "raise"}
\* run_flake8(code): the temporary file is written outside the try block, so
\* a failing write raises; everything after it is caught and the result is
\* {"status": "clean", "issues": [...]}
ProcOutcomes == {"no_output", "output", "proc_raise"}
run_flake8(write_ok, proc) ==
    IF ~write_ok THEN "raise"
    ELSE IF proc = "no_output" THEN "clean" ELSE "issues"
StyleOutcomes == {run_flake8(wr, p) : wr \in BOOLEAN, p \in ProcOutcomes}

VARIABLES
    impl,              \* which of the five loops this behaviour is
    has_state,         \* self.state / session['state'] is not None
    max_attempts,      \* state["max_attempts"] / self.max_attempts
    current_attempt,   \* state["current_attempt"]
    workflow_status,   \* state["workflow_status"]
    generated_code,    \* state["generated_code"]: attempt that produced it
    feedback_history,  \* state["feedback_history"]
    stop_requested,    \* self.stop_requested / session['stop_requested']
    is_running,        \* self.is_running / session['is_running']
    pc,                \* position of each worker thread
    attempt,           \* the worker's local attempt / current_attempt
    code,              \* the worker's local code
    review_status,     \* verdict of the reviewer in the worker's iteration
    tester_status,     \* verdict of the tester in the worker's iteration
    result,            \* what the worker's run reported to its caller
    returned,          \* the candidate and feedback that report carried
    stop_pending,      \* a stop was requested during the worker's run
    gen_calls,         \* Generator invocations the worker has made in its run
    raised,            \* a collaborator raised in the worker's iteration
    refine_pc,         \* position of the refinement thread
    sessions,          \* AgentState objects the GUI has created so far
    message_queue,     \* self.message_queue (state-changing messages only)
    start_btn,         \* Start button enabled
    use_btn,           \* Use Original / Use Refined / Refine Again enabled
    stop_btn,          \* Stop button enabled
    stats_passed,      \* BenchmarkGUI.stats_passed
    stats_failed,      \* BenchmarkGUI.stats_failed
    prompt_i,          \* index i of _run_benchmark's for loop
    unit_in,           \* arguments of the function under examination
    unit_out           \* what the function returned for them

state_vars == <<has_state, max_attempts, current_attempt, workflow_status,
                generated_code, feedback_history>>
worker_vars == <<pc, attempt, code, review_status, tester_status, result, returned,
                 stop_pending, gen_calls, raised>>
gui_vars == <<refine_pc, message_queue, start_btn, use_btn, stop_btn>>
bench_vars == <<stats_passed, stats_failed, prompt_i>>
unit_vars == <<unit_in, unit_out>>
vars == <<impl, unit_vars, sessions, state_vars, stop_requested, is_running, worker_vars,
          gui_vars, bench_vars>>

\* --------------------------------------------------------------- helpers
FeedbackEntry(src, att) == [source |-> src, attempt |-> att]

\* the list keeps only the new entry
AddFeedback_Replace(history, entry) == <<entry>>

\* state["feedback_history"].append(entry)
AddFeedback(history, entry) == Append(history, entry)

IsPrefix(s, t) == Len(s) <= Len(t) /\ SubSeq(t, 1, Len(s)) = s

\* the ceilings a program can be started with: the GUI, the web app and the
\* benchmark always run with the positive constant of create_initial_state /
\* _run_single_test; the graph and the orchestrator take it from the caller
Ceilings(i) == IF i \in {"graph", "three"} THEN 0..MaxCeiling
               ELSE 1..MaxCeiling

\* a worker starts an iteration: its per-iteration verdicts are unset
BeginIteration(w, k) ==
    /\ attempt' = [attempt EXCEPT ![w] = k]
    /\ review_status' = [review_status EXCEPT ![w] = "none"]
    /\ tester_status' = [tester_status EXCEPT ![w] = "none"]
    /\ raised' = [raised EXCEPT ![w] = FALSE]

\* the collaborator called by worker w raised an exception
Raise(w) == raised' = [raised EXCEPT ![w] = TRUE]

\* the candidate and the feedback entries a return value or terminal
\* message carries
Carried(c, f) == [code |-> c, feedback |-> f]

\* a worker's run ends and reports r, handing over candidate c and feedback f
Finish(w, r, c, f) ==
    /\ pc' = [pc EXCEPT ![w] = "done"]
    /\ result' = [result EXCEPT ![w] = r]
    /\ returned' = Carried(c, f)
    /\ stop_pending' = [stop_pending EXCEPT ![w] = FALSE]

\* a thread is created for a run: locals of the new run
Spawn(w, at) ==
    /\ pc' = [pc EXCEPT ![w] = at]
    /\ attempt' = [attempt EXCEPT ![w] = 0]
    /\ code' = [code EXCEPT ![w] = NoCode]
    /\ review_status' = [review_status EXCEPT ![w] = "none"]
    /\ tester_status' = [tester_status EXCEPT ![w] = "none"]
    /\ result' = [result EXCEPT ![w] = "none"]
    /\ returned' = Carried(NoCode, <<>>)
    /\ stop_pending' = [stop_pending EXCEPT ![w] = FALSE]
    /\ gen_calls' = [gen_calls EXCEPT ![w] = 0]
    /\ raised' = [raised EXCEPT ![w] = FALSE]

\* a worker thread that has been started and has not returned
Live(w) == pc[w] \notin {"idle", "done"}

\* the slot a new worker thread takes
FreeSlot(w) == ~Live(w) /\ \A v \in Workers : v < w => Live(v)

\* create_initial_state(raw_prompt): the fields of a fresh AgentState
create_initial_state ==
    /\ has_state' = TRUE
    /\ current_attempt' = 0
    /\ workflow_status' = "refining"
    /\ generated_code' = NoCode
    /\ feedback_history' = <<>>
    /\ UNCHANGED max_attempts

\* ------------------------------------------------------------------ Init
Init ==
    /\ impl \in Impls
    /\ max_attempts \in Ceilings(impl)
    /\ has_state = (impl \in {"graph", "three", "bench"})
    /\ current_attempt = 0
    /\ workflow_status = CASE impl = "three" -> "not_started"
                           [] impl = "graph" -> "in_progress"
                           [] OTHER -> "refining"
    /\ generated_code = NoCode
    /\ feedback_history = <<>>
    /\ stop_requested = FALSE
    /\ is_running = FALSE
    /\ pc = [w \in Workers |-> "idle"]
    /\ attempt = [w \in Workers |-> 0]
    /\ code = [w \in Workers |-> NoCode]
    /\ review_status = [w \in Workers |-> "none"]
    /\ tester_status = [w \in Workers |-> "none"]
    /\ result = [w \in Workers |-> "none"]
    /\ returned = Carried(NoCode, <<>>)
    /\ stop_pending = [w \in Workers |-> FALSE]
    /\ gen_calls = [w \in Workers |-> 0]
    /\ raised = [w \in Workers |-> FALSE]
    /\ refine_pc = "idle"
    /\ sessions = 0
    /\ message_queue = <<>>
    /\ start_btn = TRUE
    /\ use_btn = FALSE
    /\ stop_btn = FALSE
    /\ stats_passed = 0
    /\ stats_failed = 0
    /\ prompt_i = 0
    /\ unit_in = <<>>
    /\ unit_out = <<>>

\* =================================================== src/gui/app.py
\* start_refinement: the Start button, with a non-empty prompt
start_refinement ==
    /\ impl = "gui"
    /\ start_btn
    /\ refine_pc = "idle"
    /\ sessions < MaxSessions
    /\ sessions' = sessions + 1
    /\ create_initial_state
    /\ stop_requested' = FALSE
    /\ is_running' = TRUE
    /\ start_btn' = FALSE
    /\ stop_btn' = TRUE
    /\ use_btn' = FALSE
    /\ refine_pc' = "running"
    /\ UNCHANGED <<impl, unit_vars, worker_vars, message_queue, bench_vars>>

\* _run_refinement: the refinement thread; refine_prompt may raise
gui_run_refinement ==
    /\ impl = "gui"
    /\ refine_pc = "running"
    /\ Len(message_queue) < MaxQueue
    /\ refine_pc' = "idle"
    /\ \E ok \in IF has_state THEN BOOLEAN ELSE {FALSE} :
         message_queue' = Append(message_queue,
                                 IF ok THEN "refinement_done" ELSE "error")
    /\ UNCHANGED <<impl, unit_vars, sessions, state_vars, stop_requested, is_running, worker_vars,
                   start_btn, use_btn, stop_btn, bench_vars>>

\* use_original_prompt / use_refined_prompt share everything but the text
\* they store in problem_description
UsePrompt ==
    /\ impl = "gui"
    /\ use_btn
    /\ has_state
    /\ workflow_status' = "in_progress"
    /\ use_btn' = FALSE
    /\ \E w \in Workers : FreeSlot(w) /\ Spawn(w, "head")
    /\ UNCHANGED <<impl, unit_vars, sessions, has_state, max_attempts, current_attempt,
                   generated_code, feedback_history,
                   stop_requested, is_running, refine_pc, message_queue,
                   start_btn, stop_btn, bench_vars>>

use_original_prompt == UsePrompt

use_refined_prompt == UsePrompt

\* refine_again: the Refine Again button
refine_again ==
    /\ impl = "gui"
    /\ use_btn
    /\ refine_pc = "idle"
    /\ use_btn' = FALSE
    /\ refine_pc' = "running"
    /\ UNCHANGED <<impl, unit_vars, sessions, state_vars, stop_requested, is_running, worker_vars,
                   message_queue, start_btn, stop_btn, bench_vars>>

\* clear_all: the Clear button (always enabled) drops the state object and
\* resets the flags and buttons, whether or not a thread is running
clear_all ==
    /\ impl = "gui"
    /\ has_state
    /\ has_state' = FALSE
    /\ current_attempt' = 0
    /\ workflow_status' = "refining"
    /\ generated_code' = NoCode
    /\ feedback_history' = <<>>
    /\ stop_requested' = FALSE
    /\ is_running' = FALSE
    /\ start_btn' = TRUE
    /\ stop_btn' = FALSE
    /\ use_btn' = FALSE
    /\ UNCHANGED <<impl, unit_vars, sessions, max_attempts, worker_vars, refine_pc,
                   message_queue, bench_vars>>

\* stop_workflow: the Stop button
stop_workflow ==
    /\ impl = "gui"
    /\ stop_btn
    /\ IF is_running
         THEN /\ stop_requested' = TRUE
              /\ stop_btn' = FALSE
              /\ stop_pending' = [w \in Workers |-> stop_pending[w] \/ Live(w)]
         ELSE UNCHANGED <<stop_requested, stop_btn, stop_pending>>
    /\ UNCHANGED <<impl, unit_vars, sessions, state_vars, is_running, pc, attempt, code, review_status,
                   tester_status, result, returned, gen_calls, raised, refine_pc,
                   message_queue, start_btn, use_btn, bench_vars>>

GuiTerminal == {"workflow_success", "workflow_failed", "workflow_stopped",
                "error"}

\* check_queue: the presentation loop takes one message off the queue
gui_check_queue ==
    /\ impl = "gui"
    /\ message_queue # <<>>
    /\ message_queue' = Tail(message_queue)
    /\ IF Head(message_queue) = "refinement_done"
         THEN /\ use_btn' = TRUE
              /\ UNCHANGED <<is_running, start_btn, stop_btn>>
         ELSE /\ is_running' = FALSE
              /\ start_btn' = TRUE
              /\ stop_btn' = FALSE
              /\ UNCHANGED use_btn
    /\ UNCHANGED <<impl, unit_vars, sessions, state_vars, stop_requested, worker_vars, refine_pc,
                   bench_vars>>

\* _run_workflow returns: the terminal message (if any) is on the queue and
\* the thread's locals are gone
GuiExit(w, r, c, msg) ==
    /\ Finish(w, r, c, <<>>)
    /\ IF msg = "none"
         THEN UNCHANGED message_queue
         ELSE /\ Len(message_queue) < MaxQueue
              /\ message_queue' = Append(message_queue, msg)
    /\ attempt' = [attempt EXCEPT ![w] = 0]
    /\ code' = [code EXCEPT ![w] = NoCode]
    /\ review_status' = [review_status EXCEPT ![w] = "none"]
    /\ tester_status' = [tester_status EXCEPT ![w] = "none"]
    /\ gen_calls' = [gen_calls EXCEPT ![w] = 0]

\* a worker that raised: the except clause of _run_workflow
GuiError(w) ==
    /\ GuiExit(w, "error", NoCode, "error")
    /\ Raise(w)

\* _run_workflow, top of the while loop: loop condition, stop check,
\* ceiling check, increment.  self.state is read through self at every
\* access, so a cleared state (None) makes the access raise.
GuiLoopHead(w) ==
    /\ impl = "gui"
    /\ pc[w] = "head"
    /\ IF ~has_state
         THEN /\ GuiError(w)
              /\ UNCHANGED current_attempt
         ELSE IF workflow_status # "in_progress"
         THEN /\ GuiExit(w, "none", NoCode, "none")
              /\ UNCHANGED <<current_attempt, raised>>
         ELSE IF stop_requested
         THEN /\ GuiExit(w, "stopped", NoCode, "workflow_stopped")
              /\ UNCHANGED <<current_attempt, raised>>
         ELSE IF current_attempt >= max_attempts
         THEN /\ GuiExit(w, "failed", NoCode, "workflow_failed")
              /\ UNCHANGED <<current_attempt, raised>>
         ELSE /\ current_attempt' = current_attempt + 1
              /\ BeginIteration(w, current_attempt + 1)
              /\ pc' = [pc EXCEPT ![w] = "gen"]
              /\ UNCHANGED <<result, returned, stop_pending, message_queue, code, gen_calls>>
    /\ UNCHANGED <<impl, unit_vars, sessions, has_state, max_attempts, workflow_status,
                   generated_code, feedback_history,
                   stop_requested, is_running, refine_pc,
                   start_btn, use_btn, stop_btn, bench_vars>>

\* _run_workflow, coder phase
GuiGenerate(w) ==
    /\ impl = "gui"
    /\ pc[w] = "gen"
    /\ \E o \in GenOutcomes :
         IF o = "ok" /\ has_state
           THEN /\ generated_code' = attempt[w]
                /\ code' = [code EXCEPT ![w] = attempt[w]]
                /\ gen_calls' = [gen_calls EXCEPT ![w] = @ + 1]
                /\ pc' = [pc EXCEPT ![w] = "review"]
                /\ UNCHANGED <<result, returned, stop_pending, message_queue, raised, attempt,
                               review_status, tester_status>>
           ELSE /\ GuiError(w)
                /\ UNCHANGED generated_code
    /\ UNCHANGED <<impl, unit_vars, sessions, has_state, max_attempts, current_attempt,
                   workflow_status, feedback_history,
                   stop_requested, is_running, refine_pc, start_btn, use_btn,
                   stop_btn, bench_vars>>

\* _run_workflow, reviewer phase and the non-blocking flake8 phase
GuiReview(w) ==
    /\ impl = "gui"
    /\ pc[w] = "review"
    /\ \E o \in IF has_state THEN ReviewOutcomes ELSE {"raise"} :
         CASE o = "rejected" ->
                /\ review_status' = [review_status EXCEPT ![w] = "rejected"]
                /\ feedback_history' = AddFeedback(feedback_history,
                                    FeedbackEntry("Reviewer", attempt[w]))
                /\ pc' = [pc EXCEPT ![w] = "head"]
                /\ UNCHANGED <<result, returned, stop_pending, message_queue, raised, attempt,
                               code, tester_status, gen_calls>>
           [] o = "approved" ->
                /\ review_status' = [review_status EXCEPT ![w] = "approved"]
                /\ pc' = [pc EXCEPT ![w] = "flake8"]
                /\ UNCHANGED <<feedback_history, result, returned, stop_pending,
                               message_queue, raised, attempt, code,
                               tester_status, gen_calls>>
           [] OTHER ->
                /\ GuiError(w)
                /\ UNCHANGED feedback_history
    /\ UNCHANGED <<impl, unit_vars, sessions, has_state, max_attempts, current_attempt,
                   workflow_status, generated_code,
                   stop_requested, is_running, refine_pc, start_btn, use_btn,
                   stop_btn, bench_vars>>

\* _run_workflow, style phase: run_flake8 inside try/except, its result and
\* its exception only logged
GuiFlake8(w) ==
    /\ impl = "gui"
    /\ pc[w] = "flake8"
    /\ \E o \in StyleOutcomes : pc' = [pc EXCEPT ![w] = "test"]
    /\ UNCHANGED <<impl, unit_vars, sessions, state_vars, stop_requested, is_running, attempt,
                   code, review_status, tester_status, result, returned, stop_pending,
                   gen_calls, gui_vars, bench_vars, raised>>

\* _run_workflow, tester phase: failure feedback, or the status of success
GuiTest(w) ==
    /\ impl = "gui"
    /\ pc[w] = "test"
    /\ \E o \in IF has_state THEN TestOutcomes ELSE {"raise"} :
         CASE o = "fail" ->
                /\ tester_status' = [tester_status EXCEPT ![w] = "fail"]
                /\ feedback_history' = AddFeedback(feedback_history,
                                    FeedbackEntry("Tester", attempt[w]))
                /\ pc' = [pc EXCEPT ![w] = "head"]
                /\ UNCHANGED <<workflow_status, result, returned, stop_pending,
                               message_queue, raised, attempt, code,
                               review_status, gen_calls>>
           [] o = "pass" ->
                /\ tester_status' = [tester_status EXCEPT ![w] = "pass"]
                /\ workflow_status' = "success"
                /\ pc' = [pc EXCEPT ![w] = "final"]
                /\ UNCHANGED <<feedback_history, result, returned, stop_pending,
                               message_queue, raised, attempt, code,
                               review_status, gen_calls>>
           [] OTHER ->
                /\ GuiError(w)
                /\ UNCHANGED <<feedback_history, workflow_status>>
    /\ UNCHANGED <<impl, unit_vars, sessions, has_state, max_attempts, current_attempt,
                   generated_code, stop_requested, is_running, refine_pc,
                   start_btn, use_btn, stop_btn, bench_vars>>

\* _run_workflow, success exit: put ("workflow_success", code) and break
GuiSuccess(w) ==
    /\ impl = "gui"
    /\ pc[w] = "final"
    /\ GuiExit(w, "success", code[w], "workflow_success")
    /\ UNCHANGED <<impl, unit_vars, sessions, state_vars, stop_requested, is_running,
                   raised, refine_pc, start_btn, use_btn, stop_btn, bench_vars>>

\* =================================================== src/webapp/app.py
\* handle_start: start_generation with a prompt, on a connected session
handle_start ==
    /\ impl = "web"
    /\ ~is_running
    /\ refine_pc = "idle"
    /\ refine_pc' = "running"
    /\ UNCHANGED <<impl, unit_vars, sessions, state_vars, stop_requested, is_running, worker_vars,
                   message_queue, start_btn, use_btn, stop_btn, bench_vars>>

\* handle_refine_again: refine_again on a session that has a state
handle_refine_again ==
    /\ impl = "web"
    /\ has_state
    /\ refine_pc = "idle"
    /\ refine_pc' = "running"
    /\ UNCHANGED <<impl, unit_vars, sessions, state_vars, stop_requested, is_running, worker_vars,
                   message_queue, start_btn, use_btn, stop_btn, bench_vars>>

\* run_refinement: the refinement thread stores a fresh AgentState in the
\* session.  Explored only when no worker holds the state it replaces.
web_run_refinement ==
    /\ impl = "web"
    /\ refine_pc = "running"
    /\ \A w \in Workers : ~Live(w)
    /\ refine_pc' = "idle"
    /\ create_initial_state
    /\ UNCHANGED <<impl, unit_vars, sessions, stop_requested, is_running, worker_vars,
                   message_queue, start_btn, use_btn, stop_btn, bench_vars>>

\* handle_continue: continue_generation; starts a run_workflow thread
handle_continue ==
    /\ impl = "web"
    /\ has_state
    /\ workflow_status' = "in_progress"
    /\ \E w \in Workers : FreeSlot(w) /\ Spawn(w, "start")
    /\ UNCHANGED <<impl, unit_vars, sessions, has_state, max_attempts, current_attempt,
                   generated_code, feedback_history,
                   stop_requested, is_running, gui_vars, bench_vars>>

\* handle_stop: stop_generation
handle_stop ==
    /\ impl = "web"
    /\ stop_requested' = TRUE
    /\ stop_pending' = [w \in Workers |-> stop_pending[w] \/ Live(w)]
    /\ UNCHANGED <<impl, unit_vars, sessions, state_vars, is_running, pc, attempt, code, review_status,
                   tester_status, result, returned, gen_calls, raised, gui_vars,
                   bench_vars>>

\* run_workflow returns after its last status event r: the finally clause
\* runs and the thread's locals are gone
WebExit(w, r, c) ==
    /\ Finish(w, r, c, <<>>)
    /\ is_running' = FALSE
    /\ attempt' = [attempt EXCEPT ![w] = 0]
    /\ code' = [code EXCEPT ![w] = NoCode]
    /\ review_status' = [review_status EXCEPT ![w] = "none"]
    /\ tester_status' = [tester_status EXCEPT ![w] = "none"]
    /\ raised' = [raised EXCEPT ![w] = FALSE]
    /\ gen_calls' = [gen_calls EXCEPT ![w] = 0]

\* run_workflow up to the while loop
WebStart(w) ==
    /\ impl = "web"
    /\ pc[w] = "start"
    /\ is_running' = TRUE
    /\ stop_requested' = FALSE
    /\ pc' = [pc EXCEPT ![w] = "head"]
    /\ UNCHANGED <<impl, unit_vars, sessions, state_vars, attempt, code, review_status,
                   tester_status, result, returned, stop_pending, gen_calls, gui_vars, bench_vars, raised>>

\* run_workflow, top of the while loop: loop condition, stop check, ceiling
\* check; a return runs the finally clause
WebLoopHead(w) ==
    /\ impl = "web"
    /\ pc[w] = "head"
    /\ IF workflow_status # "in_progress"
         THEN /\ pc' = [pc EXCEPT ![w] = "final"]
              /\ UNCHANGED <<result, returned, stop_pending, is_running, attempt, code,
                             review_status, tester_status, raised, gen_calls>>
         ELSE IF stop_requested
         THEN WebExit(w, "stopped", NoCode)
         ELSE IF current_attempt >= max_attempts
         THEN WebExit(w, "failed", NoCode)
         ELSE /\ pc' = [pc EXCEPT ![w] = "incr"]
              /\ UNCHANGED <<result, returned, stop_pending, is_running, attempt, code,
                             review_status, tester_status, raised, gen_calls>>
    /\ UNCHANGED <<impl, unit_vars, sessions, state_vars, stop_requested, gui_vars, bench_vars>>

\* run_workflow: state["current_attempt"] += 1; attempt = ...
\* The two statements hold no call and no backward jump, so the interpreter
\* does not switch threads inside them: the increment is one step.
WebIncr(w) ==
    /\ impl = "web"
    /\ pc[w] = "incr"
    /\ current_attempt' = current_attempt + 1
    /\ BeginIteration(w, current_attempt + 1)
    /\ pc' = [pc EXCEPT ![w] = "gen"]
    /\ UNCHANGED <<impl, unit_vars, sessions, has_state, max_attempts, workflow_status,
                   generated_code, feedback_history, stop_requested, is_running, code,
                   result, returned, stop_pending, gen_calls, gui_vars, bench_vars>>

\* run_workflow, coder phase
WebGenerate(w) ==
    /\ impl = "web"
    /\ pc[w] = "gen"
    /\ gen_calls' = [gen_calls EXCEPT ![w] = @ + 1]
    /\ \E o \in GenOutcomes :
         IF o = "ok"
           THEN /\ generated_code' = attempt[w]
                /\ code' = [code EXCEPT ![w] = attempt[w]]
                /\ pc' = [pc EXCEPT ![w] = "review"]
                /\ UNCHANGED <<feedback_history, raised>>
           ELSE /\ feedback_history' = AddFeedback(feedback_history,
                                       FeedbackEntry("Coder", NoAttempt))
                /\ pc' = [pc EXCEPT ![w] = "head"]
                /\ Raise(w)
                /\ UNCHANGED <<generated_code, code>>
    /\ UNCHANGED <<impl, unit_vars, sessions, has_state, max_attempts, current_attempt,
                   workflow_status,
                   stop_requested, is_running, attempt, review_status,
                   tester_status, result, returned, stop_pending, gui_vars, bench_vars>>

\* run_workflow, reviewer phase and the flake8 phase, which only logs
WebReview(w) ==
    /\ impl = "web"
    /\ pc[w] = "review"
    /\ \E o \in ReviewOutcomes :
         CASE o = "rejected" ->
                /\ review_status' = [review_status EXCEPT ![w] = "rejected"]
                /\ feedback_history' = AddFeedback(feedback_history,
                                    FeedbackEntry("Reviewer", attempt[w]))
                /\ pc' = [pc EXCEPT ![w] = "head"]
                /\ UNCHANGED raised
           [] o = "approved" ->
                /\ review_status' = [review_status EXCEPT ![w] = "approved"]
                /\ pc' = [pc EXCEPT ![w] = "flake8"]
                /\ UNCHANGED <<feedback_history, raised>>
           [] OTHER ->
                /\ pc' = [pc EXCEPT ![w] = "head"]
                /\ Raise(w)
                /\ UNCHANGED <<review_status, feedback_history>>
    /\ UNCHANGED <<impl, unit_vars, sessions, has_state, max_attempts, current_attempt,
                   workflow_status, generated_code,
                   stop_requested, is_running, attempt, code, tester_status,
                   result, returned, stop_pending, gen_calls, gui_vars, bench_vars>>

\* run_workflow, style phase: run_flake8 inside try/except
WebFlake8(w) ==
    /\ impl = "web"
    /\ pc[w] = "flake8"
    /\ \E o \in StyleOutcomes : pc' = [pc EXCEPT ![w] = "test"]
    /\ UNCHANGED <<impl, unit_vars, sessions, state_vars, stop_requested, is_running, attempt,
                   code, review_status, tester_status, result, returned, stop_pending,
                   gen_calls, gui_vars, bench_vars, raised>>

\* run_workflow, tester phase
WebTest(w) ==
    /\ impl = "web"
    /\ pc[w] = "test"
    /\ \E o \in TestOutcomes :
         CASE o = "fail" ->
                /\ tester_status' = [tester_status EXCEPT ![w] = "fail"]
                /\ feedback_history' = AddFeedback(feedback_history,
                                    FeedbackEntry("Tester", attempt[w]))
                /\ pc' = [pc EXCEPT ![w] = "head"]
                /\ UNCHANGED <<workflow_status, raised>>
           [] o = "pass" ->
                /\ tester_status' = [tester_status EXCEPT ![w] = "pass"]
                /\ workflow_status' = "success"
                /\ pc' = [pc EXCEPT ![w] = "final"]
                /\ UNCHANGED <<feedback_history, raised>>
           [] OTHER ->
                /\ feedback_history' = AddFeedback(feedback_history,
                                    FeedbackEntry("Tester", NoAttempt))
                /\ pc' = [pc EXCEPT ![w] = "head"]
                /\ Raise(w)
                /\ UNCHANGED <<tester_status, workflow_status>>
    /\ UNCHANGED <<impl, unit_vars, sessions, has_state, max_attempts, current_attempt,
                   generated_code,
                   stop_requested, is_running, attempt, code, review_status,
                   result, returned, stop_pending, gen_calls, gui_vars, bench_vars>>

\* run_workflow after the loop: final status event, then the finally clause
WebFinal(w) ==
    /\ impl = "web"
    /\ pc[w] = "final"
    /\ WebExit(w, IF workflow_status = "success" THEN "success" ELSE "failed",
               generated_code)
    /\ UNCHANGED <<impl, unit_vars, sessions, state_vars, stop_requested, gui_vars, bench_vars>>

\* =================================================== src/workflow.py
\* route_after_reviewer with the ceiling test off by one
route_after_reviewer_OffByOne(rs, ca, ma) ==
    IF rs = "approved" THEN "test"
    ELSE IF ca > ma THEN "failure"
    ELSE "gen"

\* route_after_reviewer sending every candidate on to the tester
route_after_reviewer_ToTester(rs, ca, ma) == "test"

\* route_after_reviewer
route_after_reviewer(rs, ca, ma) ==
    IF rs = "approved" THEN "test"
    ELSE IF ca >= ma THEN "failure"
    ELSE "gen"

\* route_after_tester
route_after_tester(ts, ca, ma) ==
    IF ts = "pass" THEN "flake8"
    ELSE IF ca >= ma THEN "failure"
    ELSE "gen"

\* app.invoke(state): the graph is entered at the coder node
GraphInvoke ==
    /\ impl = "graph"
    /\ pc[1] = "idle"
    /\ Spawn(1, "gen")
    /\ UNCHANGED <<impl, unit_vars, sessions, state_vars, stop_requested, is_running, gui_vars,
                   bench_vars>>

\* an exception in a node leaves invoke without applying the node's update
GraphRaise == Finish(1, "error", NoCode, <<>>) /\ Raise(1)

\* coder_node
coder_node ==
    /\ impl = "graph"
    /\ pc[1] = "gen"
    /\ gen_calls' = [gen_calls EXCEPT ![1] = @ + 1]
    /\ \E o \in GenOutcomes :
         IF o = "ok"
           THEN /\ current_attempt' = current_attempt + 1
                /\ BeginIteration(1, current_attempt + 1)
                /\ generated_code' = current_attempt + 1
                /\ code' = [code EXCEPT ![1] = current_attempt + 1]
                /\ workflow_status' = "in_progress"
                /\ pc' = [pc EXCEPT ![1] = "review"]
                /\ UNCHANGED <<result, returned, stop_pending>>
           ELSE /\ GraphRaise
                /\ UNCHANGED <<current_attempt, attempt, review_status,
                               tester_status, generated_code, code,
                               workflow_status>>
    /\ UNCHANGED <<impl, unit_vars, sessions, has_state, max_attempts, feedback_history,
                   stop_requested, is_running, gui_vars, bench_vars>>

\* reviewer_node, then route_after_reviewer
reviewer_node ==
    /\ impl = "graph"
    /\ pc[1] = "review"
    /\ \E o \in ReviewOutcomes :
         IF o = "raise"
           THEN /\ GraphRaise
                /\ UNCHANGED <<review_status, feedback_history>>
           ELSE /\ review_status' = [review_status EXCEPT ![1] = o]
                /\ feedback_history' =
                     IF o = "rejected"
                       THEN AddFeedback(feedback_history,
                                   FeedbackEntry("Reviewer", current_attempt))
                       ELSE feedback_history
                /\ pc' = [pc EXCEPT ![1] =
                       route_after_reviewer(o, current_attempt, max_attempts)]
                /\ UNCHANGED <<result, returned, stop_pending, raised>>
    /\ UNCHANGED <<impl, unit_vars, sessions, has_state, max_attempts, current_attempt,
                   workflow_status, generated_code, stop_requested,
                   is_running, attempt, code, tester_status, gen_calls,
                   gui_vars, bench_vars>>

\* tester_node, then route_after_tester
tester_node ==
    /\ impl = "graph"
    /\ pc[1] = "test"
    /\ \E o \in TestOutcomes :
         IF o = "raise"
           THEN /\ GraphRaise
                /\ UNCHANGED <<tester_status, feedback_history>>
           ELSE /\ tester_status' = [tester_status EXCEPT ![1] = o]
                /\ feedback_history' =
                     IF o = "fail"
                       THEN AddFeedback(feedback_history,
                                   FeedbackEntry("Tester", current_attempt))
                       ELSE feedback_history
                /\ pc' = [pc EXCEPT ![1] =
                       route_after_tester(o, current_attempt, max_attempts)]
                /\ UNCHANGED <<result, returned, stop_pending, raised>>
    /\ UNCHANGED <<impl, unit_vars, sessions, has_state, max_attempts, current_attempt,
                   workflow_status, generated_code, stop_requested,
                   is_running, attempt, code, review_status, gen_calls,
                   gui_vars, bench_vars>>

\* flake8_node, then route_after_flake8: informational, always to success;
\* run_flake8 is called without a try block
flake8_node ==
    /\ impl = "graph"
    /\ pc[1] = "flake8"
    /\ \E o \in StyleOutcomes :
         IF o = "raise"
           THEN GraphRaise
           ELSE /\ pc' = [pc EXCEPT ![1] = "success"]
                /\ UNCHANGED <<result, returned, stop_pending, raised>>
    /\ UNCHANGED <<impl, unit_vars, sessions, state_vars, stop_requested, is_running, attempt,
                   code, review_status, tester_status, gen_calls,
                   gui_vars, bench_vars>>

\* success_node, then END
success_node ==
    /\ impl = "graph"
    /\ pc[1] = "success"
    /\ workflow_status' = "success"
    /\ Finish(1, "success", generated_code, feedback_history)
    /\ UNCHANGED <<impl, unit_vars, sessions, has_state, max_attempts, current_attempt,
                   generated_code, feedback_history, stop_requested,
                   is_running, attempt, code, review_status, tester_status,
                   gen_calls, gui_vars, bench_vars, raised>>

\* failure_node, then END
failure_node ==
    /\ impl = "graph"
    /\ pc[1] = "failure"
    /\ workflow_status' = "failed"
    /\ Finish(1, "failed", generated_code, feedback_history)
    /\ UNCHANGED <<impl, unit_vars, sessions, has_state, max_attempts, current_attempt,
                   generated_code, feedback_history, stop_requested,
                   is_running, attempt, code, review_status, tester_status,
                   gen_calls, gui_vars, bench_vars, raised>>

\* =================================================== src/orchestrator_3agents.py
\* ThreeAgentOrchestrator.run up to the while loop
ThreeRun ==
    /\ impl = "three"
    /\ pc[1] = "idle"
    /\ workflow_status' = "in_progress"
    /\ Spawn(1, "head")
    /\ UNCHANGED <<impl, unit_vars, sessions, has_state, max_attempts, current_attempt,
                   generated_code, feedback_history, stop_requested,
                   is_running, gui_vars, bench_vars>>

\* the orchestrator's local current_attempt is attempt[1] + 1 at the loop
\* test: it starts at 1 and is incremented before each continue
ThreeLoopHead ==
    /\ impl = "three"
    /\ pc[1] = "head"
    /\ IF attempt[1] + 1 <= max_attempts
         THEN /\ current_attempt' = attempt[1] + 1
              /\ BeginIteration(1, attempt[1] + 1)
              /\ pc' = [pc EXCEPT ![1] = "gen"]
              /\ UNCHANGED <<workflow_status, result, returned, stop_pending>>
         ELSE /\ workflow_status' = "failed"
              /\ Finish(1, "failed", generated_code, <<>>)
              /\ UNCHANGED <<current_attempt, attempt, review_status,
                             tester_status, raised>>
    /\ UNCHANGED <<impl, unit_vars, sessions, has_state, max_attempts, generated_code,
                   feedback_history, stop_requested, is_running, code,
                   gen_calls, gui_vars, bench_vars>>

\* the except clauses of run: the run is over
ThreeError(c) ==
    /\ workflow_status' = "failed"
    /\ Finish(1, "error", c, <<>>)
    /\ Raise(1)

\* the rejection / test-failure tail of an iteration: last attempt or not
ThreeRetry(last_feedback) ==
    IF attempt[1] = max_attempts
      THEN /\ workflow_status' = "failed"
           /\ Finish(1, "failed", code[1], <<last_feedback>>)
           /\ UNCHANGED raised
      ELSE /\ pc' = [pc EXCEPT ![1] = "head"]
           /\ UNCHANGED <<workflow_status, result, returned, stop_pending, raised>>

\* run, phase 1: coder.work
ThreeCoder ==
    /\ impl = "three"
    /\ pc[1] = "gen"
    /\ gen_calls' = [gen_calls EXCEPT ![1] = @ + 1]
    /\ \E o \in GenOutcomes :
         IF o = "ok"
           THEN /\ generated_code' = attempt[1]
                /\ code' = [code EXCEPT ![1] = attempt[1]]
                /\ pc' = [pc EXCEPT ![1] = "review"]
                /\ UNCHANGED <<workflow_status, result, returned, stop_pending, raised>>
           ELSE /\ ThreeError(NoCode)
                /\ UNCHANGED <<generated_code, code>>
    /\ UNCHANGED <<impl, unit_vars, sessions, has_state, max_attempts, current_attempt,
                   feedback_history, stop_requested, is_running, attempt,
                   review_status, tester_status, gui_vars, bench_vars>>

\* run, phase 2: reviewer.work and the rejection branch
ThreeReviewer ==
    /\ impl = "three"
    /\ pc[1] = "review"
    /\ \E o \in ReviewOutcomes :
         CASE o = "rejected" ->
                /\ review_status' = [review_status EXCEPT ![1] = "rejected"]
                /\ feedback_history' = AddFeedback(feedback_history,
                                    FeedbackEntry("Reviewer", attempt[1]))
                /\ ThreeRetry(FeedbackEntry("Reviewer", attempt[1]))
           [] o = "approved" ->
                /\ review_status' = [review_status EXCEPT ![1] = "approved"]
                /\ pc' = [pc EXCEPT ![1] = "test"]
                /\ UNCHANGED <<feedback_history, workflow_status, result, returned, stop_pending, raised>>
           [] OTHER ->
                /\ ThreeError(code[1])
                /\ UNCHANGED <<review_status, feedback_history>>
    /\ UNCHANGED <<impl, unit_vars, sessions, has_state, max_attempts, current_attempt,
                   generated_code, stop_requested, is_running, attempt, code,
                   tester_status, gen_calls, gui_vars, bench_vars>>

\* run, phase 3: tester.work and the verdict
ThreeTester ==
    /\ impl = "three"
    /\ pc[1] = "test"
    /\ \E o \in TestOutcomes :
         CASE o = "fail" ->
                /\ tester_status' = [tester_status EXCEPT ![1] = "fail"]
                /\ feedback_history' = AddFeedback(feedback_history,
                                    FeedbackEntry("Tester", attempt[1]))
                /\ ThreeRetry(FeedbackEntry("Tester", attempt[1]))
           [] o = "pass" ->
                /\ tester_status' = [tester_status EXCEPT ![1] = "pass"]
                /\ workflow_status' = "success"
                /\ Finish(1, "success", code[1], <<>>)
                /\ UNCHANGED <<feedback_history, raised>>
           [] OTHER ->
                /\ ThreeError(code[1])
                /\ UNCHANGED <<tester_status, feedback_history>>
    /\ UNCHANGED <<impl, unit_vars, sessions, has_state, max_attempts, current_attempt,
                   generated_code, stop_requested, is_running, attempt, code,
                   review_status, gen_calls, gui_vars, bench_vars>>

\* =================================================== src/BENCHMARK.py
\* start_benchmark: the Start button, with prompts loaded
start_benchmark ==
    /\ impl = "bench"
    /\ start_btn
    /\ is_running' = TRUE
    /\ start_btn' = FALSE
    /\ stop_btn' = TRUE
    /\ stats_passed' = 0
    /\ stats_failed' = 0
    /\ prompt_i' = 0
    /\ Spawn(1, "prompt")
    /\ UNCHANGED <<impl, unit_vars, sessions, state_vars, stop_requested, refine_pc,
                   message_queue, use_btn>>

\* stop_benchmark: the Stop button
stop_benchmark ==
    /\ impl = "bench"
    /\ stop_btn
    /\ is_running' = FALSE
    /\ stop_pending' = [w \in Workers |-> stop_pending[w] \/ Live(w)]
    /\ UNCHANGED <<impl, unit_vars, sessions, state_vars, stop_requested, pc, attempt, code, review_status,
                   tester_status, result, returned, gen_calls, raised, gui_vars,
                   bench_vars>>

\* _run_benchmark, top of the for loop over the prompts, and the first lines
\* of _run_single_test for the next prompt
BenchNextPrompt ==
    /\ impl = "bench"
    /\ pc[1] = "prompt"
    /\ IF prompt_i < NumPrompts /\ is_running
         THEN /\ prompt_i' = prompt_i + 1
              /\ current_attempt' = 0
              /\ workflow_status' = "in_progress"
              /\ generated_code' = NoCode
              /\ feedback_history' = <<>>
              /\ Spawn(1, "head")
              /\ UNCHANGED message_queue
         ELSE /\ message_queue' = Append(message_queue, "complete")
              /\ pc' = [pc EXCEPT ![1] = "done"]
              /\ UNCHANGED <<prompt_i, current_attempt, workflow_status,
                             generated_code, feedback_history, attempt, code,
                             review_status, tester_status, result, returned, stop_pending, gen_calls,
                             raised>>
    /\ UNCHANGED <<impl, unit_vars, sessions, has_state, max_attempts, stop_requested, is_running,
                   refine_pc, start_btn, use_btn, stop_btn, stats_passed,
                   stats_failed>>

\* _run_single_test returns: the result goes to _run_benchmark
BenchReturn(r, c) ==
    /\ pc' = [pc EXCEPT ![1] = "report"]
    /\ result' = [result EXCEPT ![1] = r]
    /\ returned' = Carried(c, <<>>)
    /\ stop_pending' = [stop_pending EXCEPT ![1] = FALSE]

\* _run_single_test, top of the for loop over range(1, max_attempts + 1)
BenchLoopHead ==
    /\ impl = "bench"
    /\ pc[1] = "head"
    /\ IF attempt[1] + 1 > max_attempts
         THEN /\ BenchReturn("failed", generated_code)
              /\ UNCHANGED <<current_attempt, attempt, review_status,
                             tester_status, raised>>
         ELSE IF ~is_running
         THEN /\ BenchReturn("stopped", generated_code)
              /\ BeginIteration(1, attempt[1] + 1)
              /\ UNCHANGED current_attempt
         ELSE /\ current_attempt' = attempt[1] + 1
              /\ BeginIteration(1, attempt[1] + 1)
              /\ pc' = [pc EXCEPT ![1] = "gen"]
              /\ UNCHANGED <<result, returned, stop_pending>>
    /\ UNCHANGED <<impl, unit_vars, sessions, has_state, max_attempts, workflow_status,
                   generated_code, feedback_history, stop_requested,
                   is_running, code, gen_calls, gui_vars, bench_vars>>

\* _run_single_test, coder phase
BenchGenerate ==
    /\ impl = "bench"
    /\ pc[1] = "gen"
    /\ gen_calls' = [gen_calls EXCEPT ![1] = @ + 1]
    /\ \E o \in GenOutcomes :
         IF o = "ok"
           THEN /\ generated_code' = attempt[1]
                /\ code' = [code EXCEPT ![1] = attempt[1]]
                /\ pc' = [pc EXCEPT ![1] = "review"]
                /\ UNCHANGED <<result, returned, stop_pending, raised>>
           ELSE /\ BenchReturn("failed", NoCode)
                /\ Raise(1)
                /\ UNCHANGED <<generated_code, code>>
    /\ UNCHANGED <<impl, unit_vars, sessions, has_state, max_attempts, current_attempt,
                   workflow_status, feedback_history, stop_requested,
                   is_running, attempt, review_status, tester_status,
                   gui_vars, bench_vars>>

\* _run_single_test, reviewer phase and the flake8 phase, which only logs
BenchReview ==
    /\ impl = "bench"
    /\ pc[1] = "review"
    /\ \E o \in ReviewOutcomes :
         CASE o = "rejected" ->
                /\ review_status' = [review_status EXCEPT ![1] = "rejected"]
                /\ feedback_history' = AddFeedback(feedback_history,
                                    FeedbackEntry("Reviewer", attempt[1]))
                /\ pc' = [pc EXCEPT ![1] = "head"]
                /\ UNCHANGED <<result, returned, stop_pending, raised>>
           [] o = "approved" ->
                /\ review_status' = [review_status EXCEPT ![1] = "approved"]
                /\ pc' = [pc EXCEPT ![1] = "flake8"]
                /\ UNCHANGED <<feedback_history, result, returned, stop_pending, raised>>
           [] OTHER ->
                /\ BenchReturn("failed", generated_code)
                /\ Raise(1)
                /\ UNCHANGED <<review_status, feedback_history>>
    /\ UNCHANGED <<impl, unit_vars, sessions, has_state, max_attempts, current_attempt,
                   workflow_status, generated_code, stop_requested,
                   is_running, attempt, code, tester_status, gen_calls,
                   gui_vars, bench_vars>>

\* _run_single_test, style phase: run_flake8 inside try/except
BenchFlake8 ==
    /\ impl = "bench"
    /\ pc[1] = "flake8"
    /\ \E o \in StyleOutcomes : pc' = [pc EXCEPT ![1] = "test"]
    /\ UNCHANGED <<impl, unit_vars, sessions, state_vars, stop_requested, is_running, attempt,
                   code, review_status, tester_status, result, returned, stop_pending,
                   gen_calls, gui_vars, bench_vars, raised>>

\* _run_single_test, tester phase and the success return
BenchTest ==
    /\ impl = "bench"
    /\ pc[1] = "test"
    /\ \E o \in TestOutcomes :
         CASE o = "fail" ->
                /\ tester_status' = [tester_status EXCEPT ![1] = "fail"]
                /\ feedback_history' = AddFeedback(feedback_history,
                                    FeedbackEntry("Tester", attempt[1]))
                /\ pc' = [pc EXCEPT ![1] = "head"]
                /\ UNCHANGED <<result, returned, stop_pending, raised>>
           [] o = "pass" ->
                /\ tester_status' = [tester_status EXCEPT ![1] = "pass"]
                /\ BenchReturn("success", generated_code)
                /\ UNCHANGED <<feedback_history, raised>>
           [] OTHER ->
                /\ BenchReturn("failed", generated_code)
                /\ Raise(1)
                /\ UNCHANGED <<tester_status, feedback_history>>
    /\ UNCHANGED <<impl, unit_vars, sessions, has_state, max_attempts, current_attempt,
                   workflow_status, generated_code, stop_requested,
                   is_running, attempt, code, review_status, gen_calls,
                   gui_vars, bench_vars>>

\* _run_benchmark after _run_single_test: the live statistics
BenchReport ==
    /\ impl = "bench"
    /\ pc[1] = "report"
    /\ message_queue' = Append(message_queue,
           IF result[1] = "success" THEN "stats_passed" ELSE "stats_failed")
    /\ pc' = [pc EXCEPT ![1] = "prompt"]
    /\ UNCHANGED <<impl, unit_vars, sessions, state_vars, stop_requested, is_running, attempt,
                   code, review_status, tester_status, result, returned, stop_pending, gen_calls,
                   refine_pc, start_btn, use_btn, stop_btn, bench_vars, raised>>

\* BenchmarkGUI.check_queue and benchmark_complete: one message
bench_check_queue ==
    /\ impl = "bench"
    /\ message_queue # <<>>
    /\ message_queue' = Tail(message_queue)
    /\ CASE Head(message_queue) = "stats_passed" ->
              /\ stats_passed' = stats_passed + 1
              /\ UNCHANGED <<stats_failed, is_running, start_btn, stop_btn>>
         [] Head(message_queue) = "stats_failed" ->
              /\ stats_failed' = stats_failed + 1
              /\ UNCHANGED <<stats_passed, is_running, start_btn, stop_btn>>
         [] OTHER ->
              /\ is_running' = FALSE
              /\ start_btn' = TRUE
              /\ stop_btn' = FALSE
              /\ UNCHANGED <<stats_passed, stats_failed>>
    /\ UNCHANGED <<impl, unit_vars, sessions, state_vars, stop_requested, worker_vars, refine_pc,
                   use_btn, prompt_i>>

Next ==
    \/ start_refinement
    \/ gui_run_refinement
    \/ use_original_prompt
    \/ use_refined_prompt
    \/ refine_again
    \/ stop_workflow
    \/ gui_check_queue
    \/ clear_all
    \/ \E w \in Workers : GuiLoopHead(w)
    \/ \E w \in Workers : GuiGenerate(w)
    \/ \E w \in Workers : GuiReview(w)
    \/ \E w \in Workers : GuiFlake8(w)
    \/ \E w \in Workers : GuiTest(w)
    \/ \E w \in Workers : GuiSuccess(w)
    \/ handle_start
    \/ handle_refine_again
    \/ web_run_refinement
    \/ handle_continue
    \/ handle_stop
    \/ \E w \in Workers : WebStart(w)
    \/ \E w \in Workers : WebLoopHead(w)
    \/ \E w \in Workers : WebIncr(w)
    \/ \E w \in Workers : WebGenerate(w)
    \/ \E w \in Workers : WebReview(w)
    \/ \E w \in Workers : WebFlake8(w)
    \/ \E w \in Workers : WebTest(w)
    \/ \E w \in Workers : WebFinal(w)
    \/ GraphInvoke
    \/ coder_node
    \/ reviewer_node
    \/ tester_node
    \/ flake8_node
    \/ success_node
    \/ failure_node
    \/ ThreeRun
    \/ ThreeLoopHead
    \/ ThreeCoder
    \/ ThreeReviewer
    \/ ThreeTester
    \/ start_benchmark
    \/ stop_benchmark
    \/ BenchNextPrompt
    \/ BenchLoopHead
    \/ BenchGenerate
    \/ BenchReview
    \/ BenchFlake8
    \/ BenchTest
    \/ BenchReport
    \/ bench_check_queue

Spec == Init /\ [][Next]_vars

\* the steps of worker thread w, whichever program it belongs to
WorkerNext(w) ==
    \/ GuiLoopHead(w) \/ GuiGenerate(w) \/ GuiReview(w) \/ GuiFlake8(w)
    \/ GuiTest(w)
    \/ GuiSuccess(w)
    \/ /\ w = 1
       /\ \/ coder_node \/ reviewer_node \/ tester_node \/ flake8_node
          \/ success_node \/ failure_node
          \/ ThreeLoopHead \/ ThreeCoder \/ ThreeReviewer \/ ThreeTester
          \/ BenchNextPrompt \/ BenchLoopHead \/ BenchGenerate
          \/ BenchReview \/ BenchFlake8 \/ BenchTest \/ BenchReport
    \/ WebStart(w) \/ WebLoopHead(w) \/ WebIncr(w) \/ WebGenerate(w)
    \/ WebReview(w) \/ WebFlake8(w) \/ WebTest(w) \/ WebFinal(w)

\* a started thread keeps being scheduled; the front end owes nothing
FairSpec == Spec /\ \A w \in Workers : WF_vars(WorkerNext(w))

\* ================================================================ claims
\* a step that stores a fresh AgentState (a new session or a new benchmark
\* test) instead of updating the run's state
NewState ==
    /\ current_attempt' = 0
    /\ feedback_history' = <<>>
    /\ generated_code' = NoCode

\* C1: for every max_attempts >= 1, whatever the collaborators return or
\* raise, no run of any of the loops invokes the Generator more than
\* max_attempts times, and every started worker thread comes to an end.
C1_BoundedRetries ==
    /\ [](max_attempts >= 1 =>
            \A w \in Workers : gen_calls[w] <= max_attempts)
    /\ \A w \in Workers : Live(w) ~> ~Live(w)

\* a run whose candidates were all rejected by the reviewer ended as failed
\* after max_attempts Generator calls
C1_Witness ==
    \E w \in Workers :
        /\ pc[w] = "done"
        /\ result[w] = "failed"
        /\ max_attempts = MaxCeiling
        /\ gen_calls[w] = max_attempts
        /\ Len(feedback_history) = max_attempts
        /\ \A i \in 1..Len(feedback_history) :
               feedback_history[i].source = "Reviewer"

\* C2: current_attempt always lies in 0..max_attempts, and a step that
\* changes it raises it by exactly 1 (for any max_attempts >= 0).
C2_AttemptIndex ==
    [][NewState \/
       /\ current_attempt \in 0..max_attempts
       /\ current_attempt' \in 0..max_attempts
       /\ current_attempt' # current_attempt =>
              current_attempt' = current_attempt + 1]_vars

Terminal == {"success", "failed", "stopped"}

\* C3: workflow_status moves only from not-started to in-progress and from
\* in-progress to success, failed or stopped; it never leaves a terminal
\* value, and a run reported as failed or stopped leaves a terminal value
\* recorded.
C3_StatusTransitions ==
    [][NewState \/
       /\ workflow_status \in Terminal => workflow_status' = workflow_status
       /\ workflow_status' # workflow_status =>
              \/ /\ workflow_status \in {"not_started", "refining"}
                 /\ workflow_status' = "in_progress"
              \/ /\ workflow_status = "in_progress"
                 /\ workflow_status' \in Terminal
       /\ \A w \in Workers :
              (result'[w] \in {"failed", "stopped"} /\ result'[w] # result[w])
                  => workflow_status' \in {"failed", "stopped"}]_vars

\* the stop flag the loop polls
StopFlag == IF impl = "bench" THEN ~is_running ELSE stop_requested

\* C4: a worker that begins an iteration with the stop flag set ends its run
\* as stopped without calling the Generator, and a stopped run is never
\* reported as failed.
C4_StopIsStopped ==
    [][/\ \A w \in Workers :
              (/\ impl \in {"gui", "web", "bench"}
               /\ pc[w] = "head" /\ pc'[w] # "head"
               /\ workflow_status = "in_progress"
               /\ StopFlag)
                  => result'[w] = "stopped" /\ gen_calls'[w] = gen_calls[w]
       /\ (result[1] = "stopped" /\ Len(message_queue') > Len(message_queue))
              => message_queue'[Len(message_queue')]
                     \notin {"stats_failed", "workflow_failed"}]_vars

Sources == {"Coder", "Reviewer", "Tester"}

\* C5: when a collaborator raises in attempt k, a FeedbackEntry for attempt
\* k is appended and the worker goes back to the top of the loop.
C5_ExceptionIsFeedback ==
    [][\A w \in Workers :
          (raised'[w] /\ ~raised[w]) =>
              /\ \E src \in Sources :
                     feedback_history' = Append(feedback_history,
                         [source |-> src, attempt |-> attempt[w]])
              /\ pc'[w] = "head"]_vars

AtRest == \A w \in Workers : pc[w] \in {"idle", "done", "head", "prompt",
                                        "report", "start", "final"}

\* C7: every attempt that did not end in success has appended exactly one
\* FeedbackEntry: when no attempt is in flight and none has succeeded, the
\* history is as long as the number of attempts made (so max_attempts
\* entries when a run fails at the ceiling).
C7_OneEntryPerFailedAttempt ==
    (/\ AtRest
     /\ workflow_status # "success"
     /\ \A w \in Workers : result[w] # "success")
        => /\ Len(feedback_history) = current_attempt
           /\ \A w \in Workers :
                  gen_calls[w] # 0 => gen_calls[w] <= Len(feedback_history)

\* C8: the state becomes success only in a step of a worker whose reviewer
\* approved and whose tester passes, in this iteration, the candidate this
\* iteration generated; and a worker that has reported success calls no
\* collaborator afterwards.
C8_SuccessOnlyAfterPass ==
    [][\A w \in Workers :
          /\ (/\ pc'[w] # pc[w]
              /\ \/ workflow_status' = "success" /\ workflow_status # "success"
                 \/ result'[w] = "success" /\ result[w] # "success"
              /\ impl \in {"gui", "web"} => pc[w] = "test")
                 => /\ review_status[w] = "approved"
                    /\ tester_status'[w] = "pass"
                    /\ code[w] = attempt[w]
                    /\ generated_code = code[w]
          /\ (result[w] = "success" /\ result'[w] = "success")
                 => /\ gen_calls'[w] = gen_calls[w]
                    /\ pc'[w] \notin {"gen", "review", "flake8", "test"}]_vars

\* C9: within a run, every step leaves the old feedback_history a prefix of
\* the new one.
C9_AppendOnly ==
    [][NewState \/ IsPrefix(feedback_history, feedback_history')]_vars

\* two entries of different sources have been appended one after the other
C9_Witness ==
    /\ Len(feedback_history) >= 2
    /\ feedback_history[1].source # feedback_history[2].source

\* C10: every entry has an attempt index between 1 and the current attempt
\* count, and the indices never decrease along the history.
C10_EntryAttempts ==
    /\ \A i \in 1..Len(feedback_history) :
           feedback_history[i].attempt \in 1..current_attempt
    /\ \A i \in 1..Len(feedback_history) : \A j \in 1..Len(feedback_history) :
           i <= j => feedback_history[i].attempt <= feedback_history[j].attempt

\* ============================================== src/agents/coder.py
\* The functions below are examined on their own: the loop is at rest and
\* unit_in / unit_out hold the arguments and the value returned.
main_vars == <<impl, sessions, state_vars, stop_requested, is_running, worker_vars,
               gui_vars, bench_vars>>

\* the loop's variables while a single function is examined
UnitFrame(which) ==
    /\ impl = which
    /\ has_state = FALSE
    /\ max_attempts = 1
    /\ current_attempt = 0
    /\ workflow_status = "refining"
    /\ generated_code = NoCode
    /\ feedback_history = <<>>
    /\ stop_requested = FALSE
    /\ is_running = FALSE
    /\ pc = [w \in Workers |-> "idle"]
    /\ attempt = [w \in Workers |-> 0]
    /\ code = [w \in Workers |-> NoCode]
    /\ review_status = [w \in Workers |-> "none"]
    /\ tester_status = [w \in Workers |-> "none"]
    /\ result = [w \in Workers |-> "none"]
    /\ returned = Carried(NoCode, <<>>)
    /\ stop_pending = [w \in Workers |-> FALSE]
    /\ gen_calls = [w \in Workers |-> 0]
    /\ raised = [w \in Workers |-> FALSE]
    /\ refine_pc = "idle"
    /\ sessions = 0
    /\ message_queue = <<>>
    /\ start_btn = TRUE
    /\ use_btn = FALSE
    /\ stop_btn = FALSE
    /\ stats_passed = 0
    /\ stats_failed = 0
    /\ prompt_i = 0

\* longest feedback_history handed to generate_code
MaxHist == 3
\* feedback_history[-3:] of analyze_feedback_for_return_issue / _for_typo
AnalysisWindow == 3
\* feedback_history[-2:] of generate_code
ContextWindow == 2

\* feedback messages: one that mentions a None return, two that report an
\* undefined variable (with the quoted name), one that does neither
Messages == {"returns none", "UNDEFINED VARIABLE 'totl'",
             "UNDEFINED VARIABLE 'cnt'", "tests failed"}
NoTypo == "None"

\* the name re.search(r"'(\w+)'", message) extracts from the message
QuotedName(message) ==
    CASE message = "UNDEFINED VARIABLE 'totl'" -> "totl"
      [] message = "UNDEFINED VARIABLE 'cnt'" -> "cnt"
      [] OTHER -> NoTypo

CoderEntries ==
    {[source |-> "Tester", message |-> "returns none"],
     [source |-> "Tester", message |-> "tests failed"],
     [source |-> "Reviewer", message |-> "UNDEFINED VARIABLE 'totl'"],
     [source |-> "Reviewer", message |-> "UNDEFINED VARIABLE 'cnt'"]}

Histories == UNION {[1..n -> CoderEntries] : n \in 0..MaxHist}

\* history[-n:]
LastN(history, n) ==
    IF Len(history) <= n THEN history
    ELSE SubSeq(history, Len(history) - n + 1, Len(history))

\* analyze_feedback_for_return_issue
analyze_feedback_for_return_issue(history) ==
    \E i \in 1..Len(LastN(history, AnalysisWindow)) :
        LastN(history, AnalysisWindow)[i].message = "returns none"

RECURSIVE FirstTypo(_)
\* the loop of analyze_feedback_for_typo: the first entry with a match wins
FirstTypo(entries) ==
    IF entries = <<>> THEN NoTypo
    ELSE IF QuotedName(Head(entries).message) # NoTypo
         THEN QuotedName(Head(entries).message)
         ELSE FirstTypo(Tail(entries))

\* analyze_feedback_for_typo: the typo'd name, or None
analyze_feedback_for_typo(history) ==
    FirstTypo(LastN(history, AnalysisWindow))

\* generate_code up to llm.invoke and the post-processing it selects: the
\* feedback context of the prompt, the return hint of the new-code prompt,
\* and the name handed to fix_undefined_variable
generate_code(is_modification, history) ==
    [feedback_context |->
         IF history = <<>> THEN <<>>
         ELSE <<LastN(history, ContextWindow),
                analyze_feedback_for_typo(history)>>,
     has_return_issue |->
         IF is_modification THEN FALSE
         ELSE analyze_feedback_for_return_issue(history),
     fix_undefined_variable |-> analyze_feedback_for_typo(history)]

CoderInit ==
    /\ UnitFrame("coder")
    /\ unit_in \in [older : Histories, other : Histories,
                    is_modification : BOOLEAN]
    /\ unit_out = <<>>

\* generate_code called on each of the two states
CoderGenerate ==
    /\ impl = "coder"
    /\ unit_out = <<>>
    /\ unit_out' = <<generate_code(unit_in.is_modification, unit_in.older),
                     generate_code(unit_in.is_modification, unit_in.other)>>
    /\ UNCHANGED <<unit_in, main_vars>>

CoderNext == CoderGenerate

CoderSpec == CoderInit /\ [][CoderNext]_vars

\* C11: two feedback histories that agree on their last two entries give
\* the same generation request and the same post-processing.
C11_LastTwoOnly ==
    (/\ impl = "coder"
     /\ unit_out # <<>>
     /\ LastN(unit_in.older, ContextWindow) = LastN(unit_in.other, ContextWindow))
        => unit_out[1] = unit_out[2]

\* C12: when a run has ended without success after a candidate was generated,
\* what it handed to its caller carries the latest candidate and the whole
\* feedback history.
C12_FailureCarriesArtifacts ==
    \A w \in Workers :
        (/\ pc[w] \in {"done", "report"}
         /\ result[w] \in {"failed", "stopped", "error"}
         /\ generated_code # NoCode)
            => /\ returned.code = generated_code
               /\ returned.feedback = feedback_history

\* the workers that are executing the loop on the session's state
LiveWorkers == {w \in Workers : Live(w)}

\* C13: at any time at most one workflow worker is executing the loop on a
\* session's state, so an attempt begins only when no other attempt is in
\* flight.
C13_NoOverlap ==
    /\ Cardinality(LiveWorkers) <= 1
    /\ \A v \in Workers : \A w \in Workers :
           (v # w /\ pc[v] \in {"gen", "review", "flake8", "test"})
               => pc[w] \notin {"incr", "gen", "review", "flake8", "test"}

\* a step taken by the front end: no running worker moves in it
HandlerStep == \A w \in Workers : Live(w) => pc'[w] = pc[w]

\* C14: while a worker is running, a step of a front-end handler neither
\* replaces the state object nor changes its attempt counter, candidate,
\* feedback history or status.
C14_WorkerOwnsState ==
    [][((\E w \in Workers : Live(w)) /\ HandlerStep)
          => UNCHANGED <<has_state, current_attempt, workflow_status,
                         generated_code, feedback_history>>]_vars


\* C15: once a stop was requested during a worker's run, the worker's next
\* loop-iteration check begins no new attempt: it neither increments the
\* attempt index nor goes on to a Generator request.
C15_StopTakesEffect ==
    [][\A w \in Workers :
          (stop_pending[w] /\ Live(w) /\ pc[w] = "head")
              => pc'[w] \notin {"incr", "gen"}]_vars


\* =========================================== src/agents/reviewer.py
\* review_code is examined on candidates given as lines of text (indentation
\* in spaces, stripped text) and task texts given as the keyword phrases
\* they contain.
Line(i, t) == [ind |-> i, text |-> t]

\* the indentation analyze_function_behavior requires of a loop body
BodyIndent == 8

\* a looping candidate: a function (main or ask) holding a loop that reads or
\* computes x and returns or prints it, an optional main() next to ask(),
\* optionally all inside a class, indented by step spaces per level
Shapes ==
    {s \in [wrap : {"main", "ask"}, head : {"while True:", "while 1:"},
            asks : BOOLEAN,
            ret : {"return f'{x}'", "return '{}'.format(x)", "print(x)"},
            main_def : BOOLEAN, in_class : BOOLEAN, step : {2, 4}] :
        s.wrap = "main" => s.main_def}

Program(s) ==
    LET off == IF s.in_class THEN s.step ELSE 0
        L(level, t) == Line(off + level * s.step, t)
    IN  (IF s.in_class THEN <<Line(0, "class App:")>> ELSE <<>>)
        \o <<L(0, IF s.wrap = "main" THEN "def main():" ELSE "def ask():"),
             L(1, s.head),
             L(2, IF s.asks THEN "x = input()" ELSE "x = 1"),
             L(2, s.ret)>>
        \o (IF s.wrap = "ask" /\ s.main_def
              THEN <<L(0, "def main():"), L(1, "ask()")>> ELSE <<>>)
        \o <<Line(0, "if __name__ == '__main__':"), Line(s.step, "run()")>>

\* the phrases a task text may contain
Phrases == {"keep asking", "repeatedly", "modify", "calculate", "catch error"}
Problems == SUBSET Phrases

\* what llm.invoke(prompt) does: a response with STATUS: APPROVED, with
\* STATUS: REJECTED, without a STATUS line, or an exception
LlmOutcomes == {"approved", "rejected", "no_status", "raise"}

First(S) == CHOOSE i \in S : \A j \in S : i <= j

\* line.strip().startswith('def ')
StartsDef(l) == l.text \in {"def main():", "def ask():"}
\* the name re.findall(r'def\s+(\w+)\s*\(...', code) extracts
DefName(l) == IF l.text = "def main():" THEN "main" ELSE "ask"
\* the lookahead \ndef\s | \nclass\s | \nif\s+__name__ : a block at column 0
TopLevelBreak(l) ==
    /\ l.ind = 0
    /\ StartsDef(l) \/ l.text \in {"class App:", "if __name__ == '__main__':"}
\* stripped.startswith('return ') and ('f"' in stripped or "f'" in stripped)
FormattedReturn(l) == l.text = "return f'{x}'"
\* the lines holding a match of while\s+True\s*:
WhileTrue(lines) == {i \in DOMAIN lines : lines[i].text = "while True:"}

Verdict(s, f) == [status |-> s, feedback |-> f]
NoIssue == ""

\* detect_task_intent
detect_task_intent(problem) ==
    [action |-> IF "calculate" \in problem THEN "return" ELSE "both",
     needs_loop |-> problem \cap {"keep asking", "repeatedly"} # {},
     needs_error_handling |-> "catch error" \in problem]

\* detect_modification_task
detect_modification_task(problem) == "modify" \in problem

\* detect_interactive_requirement
detect_interactive_requirement(problem) == "keep asking" \in problem

\* has_syntax_issues: the first def line is indented
has_syntax_issues(lines) ==
    LET D == {i \in DOMAIN lines : StartsDef(lines[i])}
    IN  D # {} /\ lines[First(D)].ind > 0

\* has_input_in_core_logic: the first function outside the skip list whose
\* text, up to the next def at the same or a lower indentation, holds input(
has_input_in_core_logic(lines) ==
    LET End(i) ==
            LET E == {j \in DOMAIN lines :
                        /\ j > i
                        /\ StartsDef(lines[j])
                        /\ lines[j].ind <= lines[i].ind}
            IN  IF E = {} THEN Len(lines) + 1 ELSE First(E)
        Core == {i \in DOMAIN lines :
                    /\ StartsDef(lines[i])
                    /\ DefName(lines[i]) # "main"
                    /\ \E k \in i..(End(i) - 1) : lines[k].text = "x = input()"}
    IN  IF Core = {} THEN NoIssue ELSE DefName(lines[First(Core)])

\* has_main_function
has_main_function(lines) == \E i \in DOMAIN lines : lines[i].text = "def main():"

\* analyze_function_behavior, has_return_in_loop: the lines that follow the
\* first while True, as long as they are indented by eight spaces or more
has_return_in_loop(lines) ==
    /\ WhileTrue(lines) # {}
    /\ LET i == First(WhileTrue(lines))
       IN  \E k \in (i + 1)..Len(lines) :
               /\ \A j \in (i + 1)..k : lines[j].ind >= BodyIndent
               /\ FormattedReturn(lines[k])

\* analyze_function_behavior, has_return: the first function other than main
\* has a return of a value before the next block at column 0
has_return(lines) ==
    LET Other == {i \in DOMAIN lines :
                     StartsDef(lines[i]) /\ DefName(lines[i]) # "main"}
    IN  /\ Other # {}
        /\ \E k \in (First(Other) + 1)..Len(lines) :
               /\ \A j \in (First(Other) + 1)..k : ~TopLevelBreak(lines[j])
               /\ lines[k].text \in {"return f'{x}'", "return '{}'.format(x)"}

\* check_loop_behavior
check_loop_behavior(lines, task_intent) ==
    IF ~task_intent.needs_loop THEN NoIssue
    ELSE IF WhileTrue(lines) = {}
    THEN "Task requires an endless loop, but no 'while True' loop was found."
    ELSE IF has_return_in_loop(lines)
    THEN "CRITICAL: Code has 'return' inside the while True loop"
    ELSE NoIssue

\* check_return_vs_print_in_loop: every while True, up to the next block at
\* column 0
check_return_vs_print_in_loop(lines, task_intent) ==
    IF ~task_intent.needs_loop THEN NoIssue
    ELSE IF \E i \in WhileTrue(lines) : \E k \in (i + 1)..Len(lines) :
               /\ \A j \in (i + 1)..k : ~TopLevelBreak(lines[j])
               /\ FormattedReturn(lines[k])
    THEN "BUG: uses return to show result inside loop. Use print() instead."
    ELSE NoIssue

\* check_error_handling
check_error_handling(lines, task_intent) ==
    IF ~task_intent.needs_error_handling THEN NoIssue
    ELSE IF \A i \in DOMAIN lines : lines[i].text # "try:"
    THEN "Task requires error handling but no try/except block was found."
    ELSE NoIssue

\* a reviewer that looks at the loop behaviour before anything else
review_code_IntentFirst(problem, lines, names, llm) ==
    IF check_loop_behavior(lines, detect_task_intent(problem)) # NoIssue
    THEN Verdict("rejected",
                 check_loop_behavior(lines, detect_task_intent(problem)))
    ELSE IF names.status
    THEN Verdict("rejected", names.feedback)
    ELSE IF has_syntax_issues(lines)
    THEN Verdict("rejected", "Syntax issue detected")
    ELSE Verdict(IF llm = "approved" THEN "approved" ELSE "rejected",
                 "FEEDBACK of the response")

\* what check_undefined_names returns to review_code: the message of the
\* SyntaxError when ast.parse fails, else the undefined names, else nothing
NamesResult(parses, has_undefined) ==
    IF ~parses THEN Verdict(TRUE, "Syntax error at line")
    ELSE IF has_undefined THEN Verdict(TRUE, "UNDEFINED VARIABLE(S)")
    ELSE Verdict(FALSE, NoIssue)

\* review_code: names is what check_undefined_names returned for the
\* candidate, llm what the advisory model does when it is asked.  No
\* statement of review_code is inside a try block: an exception of llm.invoke
\* leaves the function.
review_code(problem, lines, names, llm) ==
    LET task_intent == detect_task_intent(problem)
        is_modification == detect_modification_task(problem)
    IN  IF names.status
        THEN Verdict("rejected", names.feedback)
        ELSE IF has_syntax_issues(lines)
        THEN Verdict("rejected", "Syntax issue detected")
        ELSE IF ~is_modification /\ has_input_in_core_logic(lines) # NoIssue
        THEN Verdict("rejected", "Code contains input() in function")
        ELSE IF /\ ~is_modification
                /\ detect_interactive_requirement(problem)
                /\ ~has_main_function(lines)
        THEN Verdict("rejected", "Task requires interaction but no main()")
        ELSE IF check_loop_behavior(lines, task_intent) # NoIssue
        THEN Verdict("rejected", check_loop_behavior(lines, task_intent))
        ELSE IF check_return_vs_print_in_loop(lines, task_intent) # NoIssue
        THEN Verdict("rejected",
                     check_return_vs_print_in_loop(lines, task_intent))
        ELSE IF check_error_handling(lines, task_intent) # NoIssue
        THEN Verdict("rejected", check_error_handling(lines, task_intent))
        ELSE IF /\ ~is_modification
                /\ task_intent.action = "return"
                /\ ~has_return(lines)
        THEN Verdict("rejected", "Function should return a value")
        ELSE IF llm = "raise"
        THEN Verdict("exception", "llm.invoke")
        ELSE IF llm = "approved"
        THEN Verdict("approved", "FEEDBACK of the response")
        ELSE IF llm = "rejected"
        THEN Verdict("rejected", "FEEDBACK of the response")
        ELSE Verdict("rejected", "content of the response")

ReviewerInit ==
    /\ UnitFrame("reviewer")
    /\ unit_in \in [problem : Problems, shape : Shapes, parses : BOOLEAN,
                    has_undefined : BOOLEAN, llm : LlmOutcomes]
    /\ unit_out = <<>>

\* review_code called on the candidate
ReviewerReview ==
    /\ impl = "reviewer"
    /\ unit_out = <<>>
    /\ unit_out' = review_code(unit_in.problem, Program(unit_in.shape),
                               NamesResult(unit_in.parses,
                                           unit_in.has_undefined),
                               unit_in.llm)
    /\ UNCHANGED <<unit_in, main_vars>>

ReviewerNext == ReviewerReview

ReviewerSpec == ReviewerInit /\ [][ReviewerNext]_vars

\* C16: every call of review_code ends with a verdict, and a call in which
\* the advisory model failed ends with the verdict rejected.
C16_NoEscape ==
    (impl = "reviewer" /\ unit_out # <<>>)
        => /\ unit_out.status \in {"approved", "rejected"}
           /\ unit_in.llm = "raise" => unit_out.status = "rejected"


\* C19: for a task that asks for a looping program and a candidate that passes
\* the syntax, identifier and indentation checks and has a return of a formatted
\* string literal in the body of a while True loop, review_code rejects
\* with one of the two messages about the return inside the loop.
C19_ReturnInLoopMessage ==
    (/\ impl = "reviewer"
     /\ unit_out # <<>>
     /\ detect_task_intent(unit_in.problem).needs_loop
     /\ unit_in.parses
     /\ ~unit_in.has_undefined
     /\ ~has_syntax_issues(Program(unit_in.shape))
     /\ unit_in.shape.head = "while True:"
     /\ FormattedReturn(Line(0, unit_in.shape.ret)))
        => /\ unit_out.status = "rejected"
           /\ unit_out.feedback \in
                  {"CRITICAL: Code has 'return' inside the while True loop",
                   "BUG: uses return to show result inside loop. Use print() instead."}


\* check_undefined_names is examined on candidates given as their statements,
\* one per line.  A binding statement binds a name and reads it in its own
\* body; a reading statement reads a name at one expression position.
MaxStmts == 3
\* undefined[:3]: the names the message lists
MaxReported == 3

\* the builtins set of check_undefined_names (one member stands for it)
Allowlist == {"print"}
BoundNames == {"total", "idx"}
ReadNames == {"total", "totl", "idx", "print"}

\* total = 1; print(total)            for total in [1]: print(total)
\* with open(p) as total: ...          except Exception as total: ...
\* import total                        def f(total): return total
\* [total for total in xs]             f = lambda total: total
\* first, *total = xs; print(total)     def f(): total = 1; return total
BindKinds == {"assign", "for", "with", "except", "import", "def_param",
              "listcomp", "lambda_param", "starred", "local_assign"}
\* print(totl)                         totl += 1
\* sum(v for v in xs if v > totl)      data[totl] = 1
\* def f(a=totl): ...                  def g(): return totl
ReadKinds == {"call_arg", "aug_target", "genexp_if", "subscript_store",
              "default_value", "other_function"}

Statements ==
    [kind : BindKinds, name : BoundNames]
        \cup [kind : ReadKinds, name : ReadNames]
Candidates == UNION {[1..n -> Statements] : n \in 0..MaxStmts}

\* the binding forms NameCollector has a visitor for (visit_Assign with
\* _add_target, visit_For, visit_With, visit_ExceptHandler, visit_Import,
\* visit_FunctionDef, visit_ListComp); a Lambda and a Starred target fall to
\* generic_visit, which binds nothing
Registered(kind) ==
    kind \in {"assign", "for", "with", "except", "import", "def_param",
              "listcomp", "local_assign"}
\* the expression positions NameCollector.visit reaches: visit_GeneratorExp
\* skips generator.ifs, visit_Assign skips the targets, visit_FunctionDef
\* skips the defaults
Visited(kind) ==
    kind \in BindKinds \cup {"call_arg", "aug_target", "other_function"}

Collector(d, s, u) == [defined |-> d, scope |-> s, used |-> u]

\* NameCollector.visit of one statement at line lineno
VisitStatement(c, st, lineno) ==
    LET bound == IF st.kind \in BindKinds /\ Registered(st.kind)
                   THEN {st.name} ELSE {}
        \* parameters enter current_scope_definitions and reach defined
        \* when visit_FunctionDef restores the outer scope; a target inside
        \* a function body is added to defined at once by _add_target
        defined == c.defined \cup bound
        scope == IF st.kind = "def_param" THEN c.scope
                 ELSE c.scope \cup bound
        inner == scope \cup bound
        missed == CASE st.kind = "aug_target" -> TRUE
                    [] Visited(st.kind) ->
                         st.name \notin (c.defined \cup inner)
                    [] OTHER -> FALSE
    IN  Collector(defined, scope,
                  IF missed THEN Append(c.used, <<st.name, lineno>>)
                  ELSE c.used)

RECURSIVE VisitFrom(_, _, _)
\* collector.visit(tree): the statements in order
VisitFrom(c, stmts, i) ==
    IF i > Len(stmts) THEN c
    ELSE VisitFrom(VisitStatement(c, stmts[i], i), stmts, i + 1)

\* check_undefined_names: (has_error, the name/line pairs of the message)
check_undefined_names(stmts) ==
    LET c == VisitFrom(Collector({}, {}, <<>>), stmts, 1)
        all_defined == c.defined \cup Allowlist
        undefined == SelectSeq(c.used, LAMBDA p : p[1] \notin all_defined)
    IN  [has_error |-> undefined # <<>>,
         named |-> IF Len(undefined) <= MaxReported THEN undefined
                   ELSE SubSeq(undefined, 1, MaxReported)]

NamesInit ==
    /\ UnitFrame("names")
    /\ unit_in \in Candidates
    /\ unit_out = <<>>

NamesCheck ==
    /\ impl = "names"
    /\ unit_out = <<>>
    /\ unit_out' = <<check_undefined_names(unit_in)>>
    /\ UNCHANGED <<unit_in, main_vars>>

NamesNext == NamesCheck

NamesSpec == NamesInit /\ [][NamesNext]_vars

\* the names the statements of a candidate bind
BoundBy(stmts) ==
    {stmts[i].name : i \in {j \in DOMAIN stmts : stmts[j].kind \in BindKinds}}

\* C17: a candidate whose reads are all of allowlisted builtins or of names
\* that one of its own statements binds gets no undefined-identifier report.
C17_NoFalsePositive ==
    (/\ impl = "names"
     /\ unit_out # <<>>
     /\ \A i \in DOMAIN unit_in :
            unit_in[i].name \in Allowlist \cup BoundBy(unit_in))
        => ~unit_out[1].has_error

\* names one character apart (one deleted)
OneCharApart(a, b) == <<a, b>> \in {<<"totl", "total">>}

\* C18: a read of a name that no statement binds and that is one character
\* away from a name bound by a plain assignment makes check_undefined_names
\* report an error whose message lists that name with the line of the read.
C18_TypoReported ==
    (impl = "names" /\ unit_out # <<>>)
        => \A i \in DOMAIN unit_in :
               (/\ unit_in[i].kind \in ReadKinds
                /\ unit_in[i].name \notin BoundBy(unit_in)
                /\ \E j \in DOMAIN unit_in :
                       /\ unit_in[j].kind = "assign"
                       /\ OneCharApart(unit_in[i].name, unit_in[j].name))
                   => /\ unit_out[1].has_error
                      /\ \E k \in DOMAIN unit_out[1].named :
                             unit_out[1].named[k] = <<unit_in[i].name, i>>


\* C20: the style-check step of an approved attempt always hands the attempt
\* on to the same next phase, whatever the style checker returned or raised,
\* and leaves feedback_history and workflow_status as they are.
C20_StyleNeverGates ==
    [][\A w \in Workers :
          (pc[w] = "flake8" /\ pc'[w] # "flake8")
              => /\ pc'[w] = IF impl = "graph" THEN "success" ELSE "test"
                 /\ feedback_history' = feedback_history
                 /\ workflow_status' = workflow_status]_vars


\* the check a feedback message of review_code belongs to: 1 syntax validity,
\* 2 identifier resolution, 3 structural policy, 4 task-intent consistency,
\* 5 the advisory model
CheckOf(feedback) ==
    CASE feedback = "Syntax error at line" -> 1
      [] feedback = "UNDEFINED VARIABLE(S)" -> 2
      [] feedback \in {"Syntax issue detected",
                       "Code contains input() in function"} -> 3
      [] feedback \in
           {"Task requires interaction but no main()",
            "Task requires an endless loop, but no 'while True' loop was found.",
            "CRITICAL: Code has 'return' inside the while True loop",
            "BUG: uses return to show result inside loop. Use print() instead.",
            "Task requires error handling but no try/except block was found.",
            "Function should return a value"} -> 4
      [] OTHER -> 5

\* the earliest check the candidate of unit_in fails, each check taken on
\* its own; 5 when it fails none
EarliestFailing ==
    LET lines == Program(unit_in.shape)
        task_intent == detect_task_intent(unit_in.problem)
        new_code == ~detect_modification_task(unit_in.problem)
    IN  IF ~unit_in.parses THEN 1
        ELSE IF unit_in.has_undefined THEN 2
        ELSE IF \/ has_syntax_issues(lines)
                \/ new_code /\ has_input_in_core_logic(lines) # NoIssue
        THEN 3
        ELSE IF \/ /\ new_code
                   /\ detect_interactive_requirement(unit_in.problem)
                   /\ ~has_main_function(lines)
                \/ check_loop_behavior(lines, task_intent) # NoIssue
                \/ check_return_vs_print_in_loop(lines, task_intent) # NoIssue
                \/ check_error_handling(lines, task_intent) # NoIssue
                \/ /\ new_code
                   /\ task_intent.action = "return"
                   /\ ~has_return(lines)
        THEN 4
        ELSE 5

\* C21: the feedback of review_code is that of the earliest check the
\* candidate fails, in the order syntax, identifiers, structure, task intent,
\* and the advisory model decides only when the candidate fails none of them.
C21_CheckOrder ==
    (impl = "reviewer" /\ unit_out # <<>>)
        => CheckOf(unit_out.feedback) = EarliestFailing

\* a candidate with an indented first def and no while True for a looping
\* task was rejected for the indentation
C21_Witness ==
    /\ impl = "reviewer"
    /\ unit_out # <<>>
    /\ unit_in.parses /\ ~unit_in.has_undefined
    /\ has_syntax_issues(Program(unit_in.shape))
    /\ check_loop_behavior(Program(unit_in.shape),
                           detect_task_intent(unit_in.problem)) # NoIssue
    /\ unit_out = Verdict("rejected", "Syntax issue detected")


\* the binding forms whose name is bound inside one function body only
LocalKinds == {"local_assign", "def_param", "lambda_param"}

\* C22: a name read in the body of g that the candidate binds only inside
\* the body of another function f, and that is not an allowlisted builtin, is
\* reported as undefined at the line of the read.
C22_ScopeAware ==
    (impl = "names" /\ unit_out # <<>>)
        => \A i \in DOMAIN unit_in :
               (/\ unit_in[i].kind = "other_function"
                /\ unit_in[i].name \notin Allowlist
                /\ \A j \in DOMAIN unit_in :
                       (unit_in[j].kind \in BindKinds
                        /\ unit_in[j].name = unit_in[i].name)
                           => unit_in[j].kind \in LocalKinds)
                   => \E k \in DOMAIN unit_out[1].named :
                          unit_out[1].named[k] = <<unit_in[i].name, i>>


\* ============================================== src/agents/tester.py
\* extract_function_info is examined on candidates given as their function
\* headers in text order (name, number of parameters, whether the def is
\* nested in a class or function) and whether ast.parse accepts them.
MaxDefs == 3

FuncNames == {"main", "__init__", "_helper", "solve"}
Headers == [name : FuncNames, param_count : 0..1, nested : BOOLEAN]
HeaderLists == UNION {[1..n -> Headers] : n \in 0..MaxDefs}

\* node.name in ['main', '__init__'] or node.name.startswith('_')
Reserved(name) == name \in {"main", "__init__", "_helper"}

Signature(n, k) == [name |-> n, param_count |-> k]
\* the sentinel of the last return statement
UnknownSignature == Signature("unknown", 0)

\* ast.walk(tree): breadth first, so the top-level defs in text order come
\* before the nested ones
WalkOrder(defs) ==
    SelectSeq(defs, LAMBDA h : ~h.nested) \o SelectSeq(defs, LAMBDA h : h.nested)

\* extract_function_info: the first FunctionDef of the walk that is not
\* reserved; when there is none or the parse failed, the first def header a
\* regular expression finds in the text, unless it is main; else the sentinel
extract_function_info(parses, defs) ==
    LET found == SelectSeq(WalkOrder(defs), LAMBDA h : ~Reserved(h.name))
    IN  IF parses /\ found # <<>>
        THEN Signature(found[1].name, found[1].param_count)
        ELSE IF defs # <<>> /\ defs[1].name # "main"
        THEN Signature(defs[1].name, defs[1].param_count)
        ELSE UnknownSignature

ExtractInit ==
    /\ UnitFrame("extract")
    /\ unit_in \in [parses : BOOLEAN, defs : HeaderLists]
    /\ unit_out = <<>>

ExtractInfo ==
    /\ impl = "extract"
    /\ unit_out = <<>>
    /\ unit_out' = extract_function_info(unit_in.parses, unit_in.defs)
    /\ UNCHANGED <<unit_in, main_vars>>

ExtractNext == ExtractInfo

ExtractSpec == ExtractInit /\ [][ExtractNext]_vars

\* C23: the subject extract_function_info returns is never a reserved name,
\* and it is the unknown sentinel when the candidate has no function that is
\* not reserved, or does not parse and has no function header.
C23_NoReservedSubject ==
    (impl = "extract" /\ unit_out # <<>>)
        => /\ ~Reserved(unit_out.name)
           /\ (\A i \in DOMAIN unit_in.defs : Reserved(unit_in.defs[i].name))
                  => unit_out = UnknownSignature


\* run_tests is examined on task texts given as the phrases they contain,
\* with what the pre-validation run and the pytest run of the sandbox do.
TesterPhrases == {"modify the", "keep asking", "handle"}
TesterProblems == SUBSET TesterPhrases

\* detect_modification_task, detect_loop_requirement and
\* detect_error_handling_requirement of tester.py
tester_detect_modification_task(problem) == "modify the" \in problem
detect_loop_requirement(problem) == "keep asking" \in problem
detect_error_handling_requirement(problem) == "handle" \in problem

\* what pre_validate_code meets: a candidate that runs, a SyntaxError, no
\* subject function, a _FAIL line, no _PASS line, subprocess.TimeoutExpired
\* after 5 seconds, another exception
PreOutcomes == {"pass", "syntax_error", "no_function", "fail_output",
                "no_output", "timeout", "exception"}
\* what the pytest run does: return code 0, another return code,
\* subprocess.TimeoutExpired after 30 seconds, another exception
PytestOutcomes == {"rc0", "rc1", "timeout", "exception"}

\* pre_validate_code / try_execute_function: valid and reason
pre_validate_code(pre) ==
    [valid |-> pre = "pass",
     reason |->
         CASE pre = "pass" -> "Pre-validation passed"
           [] pre = "syntax_error" -> "Syntax error on line"
           [] pre = "no_function" -> "Could not find function"
           [] pre = "fail_output" -> "Function execution failed"
           [] pre = "no_output" -> "No output from function"
           [] pre = "timeout" -> "Function timed out (possible infinite loop)"
           [] OTHER -> "Execution error"]

\* run_tests: the returned status and results, with whether
\* pre_validate_code was called and which test generator was used
run_tests(problem, pre, func_type, pytest) ==
    LET is_modification == tester_detect_modification_task(problem)
        needs_loop == detect_loop_requirement(problem)
        skip_prevalidation == is_modification /\ needs_loop
        needs_error_handling == detect_error_handling_requirement(problem)
    IN  IF ~skip_prevalidation /\ ~pre_validate_code(pre).valid
        THEN [status |-> "fail",
              results |-> pre_validate_code(pre).reason,
              prevalidated |-> TRUE,
              tests |-> "none"]
        ELSE [status |-> IF pytest = "rc0" THEN "pass" ELSE "fail",
              results |->
                  CASE pytest = "timeout" ->
                         "Test execution timed out (30 seconds)"
                    [] pytest = "exception" -> "Error running tests"
                    [] OTHER -> "output of pytest",
              prevalidated |-> ~skip_prevalidation,
              tests |->
                  IF is_modification /\ (needs_loop \/ needs_error_handling)
                  THEN "generate_behavioral_tests"
                  ELSE IF func_type = "print"
                  THEN "generate_tests_for_print_function"
                  ELSE "generate_tests_for_return_function"]

RunTestsInit ==
    /\ UnitFrame("run_tests")
    /\ unit_in \in [problem : TesterProblems, pre : PreOutcomes,
                    func_type : {"print", "return"}, pytest : PytestOutcomes]
    /\ unit_out = <<>>

RunTestsCall ==
    /\ impl = "run_tests"
    /\ unit_out = <<>>
    /\ unit_out' = run_tests(unit_in.problem, unit_in.pre, unit_in.func_type,
                             unit_in.pytest)
    /\ UNCHANGED <<unit_in, main_vars>>

RunTestsNext == RunTestsCall

RunTestsSpec == RunTestsInit /\ [][RunTestsNext]_vars

\* C24: run_tests uses generate_behavioral_tests for exactly the tasks for
\* which it did not call pre_validate_code.
C24_SkipMatchesSuite ==
    (impl = "run_tests" /\ unit_out # <<>>)
        => (unit_out.tests = "generate_behavioral_tests"
                <=> ~unit_out.prevalidated)

\* C26: the status of a verdict that reports a timeout, of the sandbox or of
\* the pre-validation, differs from the status of the verdict run_tests
\* returns for the same task when an assertion fails.
C26_TimeoutIsItsOwnKind ==
    (/\ impl = "run_tests"
     /\ unit_out # <<>>
     /\ unit_out.results \in {"Test execution timed out (30 seconds)",
                              "Function timed out (possible infinite loop)"})
        => unit_out.status #
               run_tests(unit_in.problem, "pass", unit_in.func_type,
                         "rc1").status


\* generate_tests_for_return_function is examined on task texts given as the
\* phrases they contain; the branches of the table that these phrases can
\* reach are modelled, in the order of the source.
TemplatePhrases == {"prime", "factor", "primes under", "check if", "second",
                    "largest", "quicksort", "merge", "sort", "count",
                    "vowel", "character", "word"}
TemplateProblems == SUBSET TemplatePhrases

\* the keywords that are substrings of a phrase
Words(phrase) ==
    CASE phrase = "primes under" -> {"primes under", "prime"}
      [] phrase = "check if" -> {"check if", "check"}
      [] phrase = "quicksort" -> {"quicksort", "sort"}
      [] OTHER -> {phrase}

\* kw in problem_lower
Mentions(problem, kw) == \E phrase \in problem : kw \in Words(phrase)

\* the condition of the if statement that returns template t
Pattern(t, problem) ==
    CASE t = "test_prime_factors" ->
           Mentions(problem, "prime") /\ Mentions(problem, "factor")
      [] t = "test_primes_less_than" ->
           /\ Mentions(problem, "prime")
           /\ Mentions(problem, "primes under")
           /\ ~Mentions(problem, "check if")
      [] t = "test_prime_numbers" ->
           Mentions(problem, "prime") /\ Mentions(problem, "check")
      [] t = "test_count_vowels" ->
           Mentions(problem, "vowel") /\ Mentions(problem, "count")
      [] t = "test_find_largest" -> Mentions(problem, "largest")
      [] t = "test_quicksort" -> Mentions(problem, "quicksort")
      [] t = "test_merge_sort" ->
           Mentions(problem, "merge") /\ Mentions(problem, "sort")
      [] t = "test_sort" -> Mentions(problem, "sort")
      [] t = "test_count_char" ->
           /\ Mentions(problem, "count")
           /\ Mentions(problem, "character")
           /\ ~Mentions(problem, "vowel")
      [] t = "test_second_largest" ->
           Mentions(problem, "second") /\ Mentions(problem, "largest")
      [] t = "test_count_words" ->
           Mentions(problem, "count") /\ Mentions(problem, "word")
      [] OTHER -> FALSE

\* the if statements in the order of the source
TemplateTable ==
    <<"test_prime_factors", "test_primes_less_than", "test_prime_numbers",
      "test_count_vowels", "test_find_largest", "test_quicksort",
      "test_merge_sort", "test_sort", "test_count_char",
      "test_second_largest", "test_count_words">>

\* generate_tests_for_return_function: the first if statement whose
\* condition holds returns its template; else the generic tests
generate_tests_for_return_function(problem) ==
    LET hits == SelectSeq(TemplateTable, LAMBDA t : Pattern(t, problem))
    IN  IF hits = <<>> THEN "test_function_returns_value" ELSE hits[1]

TemplateInit ==
    /\ UnitFrame("templates")
    /\ unit_in \in TemplateProblems
    /\ unit_out = <<>>

TemplateGenerate ==
    /\ impl = "templates"
    /\ unit_out = <<>>
    /\ unit_out' = <<generate_tests_for_return_function(unit_in)>>
    /\ UNCHANGED <<unit_in, main_vars>>

TemplateNext == TemplateGenerate

TemplateSpec == TemplateInit /\ [][TemplateNext]_vars

\* the pairs of a more specific and a more general template
SpecificOver ==
    {<<"test_prime_factors", "test_prime_numbers">>,
     <<"test_primes_less_than", "test_prime_numbers">>,
     <<"test_second_largest", "test_find_largest">>,
     <<"test_quicksort", "test_sort">>,
     <<"test_merge_sort", "test_sort">>,
     <<"test_count_vowels", "test_count_char">>,
     <<"test_count_vowels", "test_count_words">>}

\* C25: when a task text matches the pattern of a more specific template and
\* that of its more general one, the general template is not the one
\* generate_tests_for_return_function selects.
C25_SpecificFirst ==
    (impl = "templates" /\ unit_out # <<>>)
        => \A p \in SpecificOver :
               (Pattern(p[1], unit_in) /\ Pattern(p[2], unit_in))
                   => unit_out[1] # p[2]


\* C27: every return of _run_workflow puts exactly one terminal message
\* (workflow_success, workflow_failed, workflow_stopped or error) on the
\* queue; no run of the GUI loop ends without one.
C27_TerminalMessage ==
    [][\A w \in Workers :
         (impl = "gui" /\ Live(w) /\ pc'[w] = "done")
             => /\ Len(message_queue') = Len(message_queue) + 1
                /\ message_queue'[Len(message_queue')] \in GuiTerminal
                /\ \A i \in 1..Len(message_queue) :
                       message_queue'[i] = message_queue[i]]_vars


\* C28: in the web application a stop request that arrives during a run
\* (after continue_generation was handled, before or inside the worker's
\* loop) makes that run end as stopped at its next loop-iteration check.
C28_StopNotLost ==
    [][\A w \in Workers :
          (impl = "web" /\ stop_pending[w] /\ pc[w] = "head"
               /\ pc'[w] # "head")
              => (pc'[w] = "done" /\ result'[w] = "stopped")]_vars

\* the step of worker w emits the status event s (emit_status in
\* run_workflow); 'stopped' is also emitted by handle_stop, which
\* stop_pending records for the runs alive at that moment
EmitsStatus(w, s) ==
    /\ impl = "web"
    /\ CASE s = "generating" -> pc[w] = "incr" /\ pc'[w] = "gen"
         [] s = "completed" ->
                pc[w] = "final" /\ pc'[w] = "done" /\ result'[w] = "success"
         [] s = "failed" ->
                pc[w] \in {"head", "final"} /\ pc'[w] = "done"
                    /\ result'[w] = "failed"
         [] s = "stopped" ->
                pc[w] = "head" /\ pc'[w] = "done" /\ result'[w] = "stopped"
         [] OTHER -> FALSE

\* the step of worker w emits code_result with success = TRUE
EmitsCodeResultSuccess(w) ==
    /\ impl = "web"
    /\ pc[w] = "final" /\ pc'[w] = "done"
    /\ workflow_status = "success"

\* C29: once the status 'stopped' has been emitted for a run of the web
\* application, no later status event of that run reports 'generating',
\* 'completed' or 'failed', and no later code_result reports success.
C29_StoppedIsLast ==
    [][\A w \in Workers :
          (impl = "web" /\ stop_pending[w])
              => /\ ~EmitsStatus(w, "generating")
                 /\ ~EmitsStatus(w, "completed")
                 /\ ~EmitsStatus(w, "failed")
                 /\ ~EmitsCodeResultSuccess(w)]_vars


\* a step of worker w in a run of the graph, the GUI loop or
\* ThreeAgentOrchestrator.run that no stop request, no exception, no other
\* worker and no replacement of the state object touches
UndisturbedStep(w) ==
    /\ impl \in {"graph", "gui", "three"}
    /\ max_attempts >= 1
    /\ has_state /\ has_state'
    /\ sessions' <= 1
    /\ ~stop_requested /\ ~stop_requested'
    /\ ~stop_pending[w]
    /\ ~raised'[w]
    /\ \A v \in Workers \ {w} : ~Live(v)

=============================================================================
